---- MODULE Spec2Model ----
(***************************************************************************)
(* Model of the solar production tracker (components/solar-tracker.tsx):   *)
(* the entries list and the date-keyed map, the pending overlay, the       *)
(* single-slot week cache, the chunked startup load and the debounced save.*)
(*                                                                         *)
(* React is modelled by three phases.  An event handler or timer callback  *)
(* runs when phase = "idle"; it assigns the state it sets, records in      *)
(* `changed` which hooks' dependencies it touched and moves to "render";   *)
(* Render evaluates the component body (queued updater, memoized week);    *)
(* RunEffects runs the passive effects whose dependencies changed.         *)
(*                                                                         *)
(* Calendar days are day numbers, day 0 being a Sunday.  A Date is an      *)
(* instant counted in ticks of UTC time, TicksPerDay ticks to the day; the *)
(* local calendar day of an instant t is (t + tz) \div TicksPerDay.        *)
(***************************************************************************)
EXTENDS Integers, Sequences, FiniteSets, TLC

VARIABLES
    date,             \* useState date: an instant, or NULL
    entries,          \* useState entries: sequence of SolarEntry
    isLoading,        \* useState isLoading
    isInitialized,    \* useState isInitialized
    forceUpdate,      \* useState forceUpdate
    editingDay,       \* useState editingDay: a day, or NULL
    editValue,        \* useState editValue: the number the edit input holds
    chart,            \* SolarChart: maxValue and chartData of the entries given
    entriesRef,       \* entriesRef.current
    entriesMapRef,    \* entriesMapRef.current: function day -> SolarEntry
    weeklyEntriesCache, \* weeklyEntriesCache.current: NoCache or [date, entries]
    pendingUpdatesRef,  \* pendingUpdatesRef.current: function day -> production
    saveTimeoutRef,   \* saveTimeoutRef.current: a timer handle, or NoTimer
    saveTimers,       \* the armed debounce timers: [id, snapshot, superseded]
    initialRenderRef, \* initialRenderRef.current
    weeklyEntries,    \* the memoized weeklyEntries of the last render
    weeklyStats,      \* the memoized weeklyStats of the last render
    today,            \* useMemo today: the instant of the first render
    tz,               \* the browser's UTC offset, in ticks
    stored,           \* localStorage under STORAGE_KEY
    storageCache,     \* safeStorage's cache for STORAGE_KEY: [has, val]
    mounted,          \* the component is mounted (isMounted of the load effect)
    loadPc,           \* position of the startup load
    loadIndex,        \* startIndex of the next scheduled processChunk
    savedEntries,     \* the value the load read from safeStorage
    nextId,           \* number of crypto.randomUUID() entry ids handed out
    uuidEpoch,        \* generation of the placeholder ids of the last materialization
    phase,            \* "mount", "idle", "updating", "render", "effects", "unmounted"
    changed,          \* the state the running batch has set
    queued,           \* the setEntries updater waiting for the render
    saveCleanup,      \* the save effect's last run returned its cleanup
    persisted0,       \* history: localStorage at startup
    lastUpsert,       \* history: the last submit or inline edit that was accepted
    lastCall,         \* history: the last call of getCurrentWeekEntries
    lastWrite         \* history: the last run of the save timer's callback

vars == << date, entries, isLoading, isInitialized, forceUpdate, editingDay, editValue, chart,
           entriesRef, entriesMapRef, weeklyEntriesCache, pendingUpdatesRef,
           saveTimeoutRef, saveTimers, initialRenderRef, weeklyEntries, today, tz,
           stored, storageCache, mounted, loadPc, loadIndex, savedEntries,
           nextId, uuidEpoch, phase, changed, queued, saveCleanup,
           persisted0, lastUpsert, lastCall, weeklyStats, lastWrite >>

----------------------------------------------------------------------------
(* Bounds of the model *)

TicksPerDay == 2
MaxForceUpdate == 2
MaxRawLen == 2
MaxExtra == 1
WeeksBack == 9
MaxStatStep == 2
MaxChartLen == 3

(* Program constants *)

ChunkSize == 50

----------------------------------------------------------------------------
(* Values *)

NULL == 0 - 1
NoDate == 0 - 2
NaN == 0 - 9999
NoId == [k |-> "none", n |-> 0]
NoCache == [date |-> NoDate, entries |-> << >>, set |-> FALSE]
NoUpdate == [kind |-> "none", date |-> NoDate, production |-> 0]
NoTimer == 0
NoEntry == [date |-> NoDate, production |-> 0, id |-> NoId]
NoChart == [maxValue |-> 0, bars |-> << >>]

StoredId(n) == [k |-> "stored", n |-> n]
RandomUUID(n) == [k |-> "uuid", n |-> n]
PlaceholderUUID(epoch, i) == [k |-> "placeholder", n |-> 7 * epoch + i]

Truthy(id) == id # NoId

\* Today is a Monday
Today == 7 * WeeksBack + 1

----------------------------------------------------------------------------
(* Numbers: JavaScript comparison and coercion with NaN *)

Gt(a, b) == a # NaN /\ b # NaN /\ a > b
Lt(a, b) == a # NaN /\ b # NaN /\ a < b

Num(v) == [k |-> "num", v |-> v]
Str(v) == [k |-> "str", v |-> v]
Text == [k |-> "text", v |-> 0]
JsonNull == [k |-> "null", v |-> 0]
Undefined == [k |-> "undef", v |-> 0]
NaNValue == [k |-> "nan", v |-> 0]

\* Number(entry.production)
NumberOf(raw) ==
    CASE raw.k = "num" -> raw.v
      [] raw.k = "str" -> raw.v
      [] raw.k = "null" -> 0
      [] OTHER -> NaN

\* a number as a JavaScript value, and JSON.stringify followed by JSON.parse
ToValue(p) == IF p = NaN THEN NaNValue ELSE Num(p)
JsonRoundTrip(raw) == IF raw.k = "nan" THEN JsonNull ELSE raw

----------------------------------------------------------------------------
(* Dates (date-fns and Date, in the browser's time zone) *)

\* format(d, "yyyy-MM-dd"): the local calendar day of an instant
Format(t) == (t + tz) \div TicksPerDay

\* new Date("YYYY-MM-DD"): midnight UTC of the day
NewDate(day) == day * TicksPerDay

\* the Date the calendar widget hands over: local midnight of the day
CalendarDate(day) == day * TicksPerDay - tz

\* a week that starts on Monday (weekStartsOn: 1)
StartOfWeekMonday(t) == CalendarDate(Format(t) - ((Format(t) + 6) % 7))

\* startOfWeek(d): local midnight of the latest Sunday on or before d
StartOfWeek(t) == CalendarDate(Format(t) - (Format(t) % 7))

\* addDays(d, n)
AddDays(t, n) == t + n * TicksPerDay

----------------------------------------------------------------------------
(* The entries list and the date-keyed map *)

EmptyMap == [x \in {} |-> 0]

\* Map.set(key, value)
MapSet(m, key, value) ==
    [x \in (DOMAIN m) \cup {key} |-> IF x = key THEN value ELSE m[x]]

\* a delete that leaves the key
MapDeleteKeeps(m, key) == m

\* Map.delete(key)
MapDelete(m, key) == [x \in (DOMAIN m) \ {key} |-> m[x]]

\* list.forEach((entry) => map.set(entry.date, entry)), from index i on:
\* every date of the list is set, and the last entry of a date stays
SetAll(m, list, i) ==
    LET last(d) == CHOOSE j \in i..Len(list) :
                      /\ list[j].date = d
                      /\ \A k \in (j + 1)..Len(list) : list[k].date # d
    IN  [x \in (DOMAIN m) \cup {list[j].date : j \in i..Len(list)} |->
            IF \E j \in i..Len(list) : list[j].date = x THEN list[last(x)] ELSE m[x]]

\* const entriesMap = new Map(); entries.forEach(...)
RebuildMap(list) == SetAll(EmptyMap, list, 1)

\* prevEntries.findIndex((entry) => entry.date === d), 0 when there is none
FindIndex(list, d) ==
    IF \E i \in 1..Len(list) : list[i].date = d
    THEN CHOOSE i \in 1..Len(list) :
            /\ list[i].date = d
            /\ \A j \in 1..(i - 1) : list[j].date # d
    ELSE 0

NewEntry(d, p, n) == [id |-> RandomUUID(n), date |-> d, production |-> p]

\* onSubmit's updatedEntries, from the entries of the render and the map lookup
SubmitEntries(list, m, d, p, n) ==
    IF d \in DOMAIN m
    THEN [i \in 1..Len(list) |->
            IF list[i].date = d THEN [list[i] EXCEPT !.production = p] ELSE list[i]]
    ELSE Append(list, NewEntry(d, p, n))

\* updateEntry's updater: the updated list
UpsertEntries(list, d, p, n) ==
    IF FindIndex(list, d) > 0
    THEN [list EXCEPT ![FindIndex(list, d)].production = p]
    ELSE Append(list, NewEntry(d, p, n))

\* updateEntry's updater: the updated copy of the map
UpsertMap(m, list, d, p, n) ==
    IF FindIndex(list, d) > 0
    THEN MapSet(m, d, UpsertEntries(list, d, p, n)[FindIndex(list, d)])
    ELSE MapSet(m, d, UpsertEntries(list, d, p, n)[Len(list) + 1])

----------------------------------------------------------------------------
(* The week window *)

WeekKey(t) == Format(StartOfWeek(t))

\* a loop that starts one day after the week's first day
WeekEntryFromSecondDay(t, i, m, pend, epoch) ==
    LET weekDate == Format(AddDays(StartOfWeek(t), i + 1))
        has == weekDate \in DOMAIN m
    IN  [date |-> weekDate,
         production |-> IF weekDate \in DOMAIN pend THEN pend[weekDate]
                        ELSE IF has THEN m[weekDate].production ELSE 0,
         id |-> IF has /\ Truthy(m[weekDate].id)
                THEN m[weekDate].id ELSE PlaceholderUUID(epoch, i)]

\* a loop body in which the store's entry takes precedence over the overlay
WeekEntryStoreFirst(t, i, m, pend, epoch) ==
    LET weekDate == Format(AddDays(StartOfWeek(t), i))
        has == weekDate \in DOMAIN m
    IN  [date |-> weekDate,
         production |-> IF has THEN m[weekDate].production
                        ELSE IF weekDate \in DOMAIN pend THEN pend[weekDate] ELSE 0,
         id |-> IF has /\ Truthy(m[weekDate].id)
                THEN m[weekDate].id ELSE PlaceholderUUID(epoch, i)]

\* the loop body of getCurrentWeekEntries for day i (0-based) of the week
WeekEntry(t, i, m, pend, epoch) ==
    LET weekDate == Format(AddDays(StartOfWeek(t), i))
        has == weekDate \in DOMAIN m
        id == IF has /\ Truthy(m[weekDate].id)
              THEN m[weekDate].id ELSE PlaceholderUUID(epoch, i)
    IN  IF weekDate \in DOMAIN pend
        THEN [date |-> weekDate, production |-> pend[weekDate], id |-> id]
        ELSE [date |-> weekDate,
              production |-> IF has THEN m[weekDate].production ELSE 0,
              id |-> id]

\* the week computed on a cache miss
ComputeWeek(t, m, pend, epoch) ==
    [i \in 1..7 |-> WeekEntry(t, i - 1, m, pend, epoch)]

\* a cache check that never finds the week
CacheHitNever(t, cache) == FALSE

\* the cache check of getCurrentWeekEntries
CacheHit(t, cache) == cache.set /\ cache.date = WeekKey(t)

\* getCurrentWeekEntries(): the sequence it returns
GetCurrentWeekEntries(t, cache, m, pend, epoch) ==
    IF t = NULL THEN << >>
    ELSE IF CacheHit(t, cache) THEN cache.entries
    ELSE ComputeWeek(t, m, pend, epoch)

\* getCurrentWeekEntries(): the cache it leaves
CacheAfter(t, cache, m, pend, epoch) ==
    IF t = NULL \/ CacheHit(t, cache) THEN cache
    ELSE [date |-> WeekKey(t), entries |-> ComputeWeek(t, m, pend, epoch), set |-> TRUE]

WeekDates(week) == {week[i].date : i \in 1..Len(week)}

----------------------------------------------------------------------------
(* Weekly statistics *)

\* a + b in JavaScript numbers
Add(a, b) == IF a = NaN \/ b = NaN THEN NaN ELSE a + b

\* a / b, kept as the exact quotient num / den
Quotient(a, b) == [num |-> a, den |-> b]
Zero == [num |-> 0, den |-> 1]

\* an accumulator whose maximum starts below zero
StatsStartBelowZero ==
    [total |-> 0, daysWithProduction |-> 0, maxProduction |-> 0 - 1,
     maxProductionDay |-> NoEntry]

\* the accumulator before the first entry
StatsStart ==
    [total |-> 0, daysWithProduction |-> 0, maxProduction |-> 0,
     maxProductionDay |-> NoEntry]

\* a reducer that counts every day as a day with production
StatsStepCountsAll(acc, entry) ==
    [total |-> Add(acc.total, entry.production),
     daysWithProduction |-> acc.daysWithProduction + 1,
     maxProduction |->
        IF Gt(entry.production, acc.maxProduction)
        THEN entry.production ELSE acc.maxProduction,
     maxProductionDay |->
        IF Gt(entry.production, acc.maxProduction) THEN entry ELSE acc.maxProductionDay]

\* a reducer that also takes an entry whose production equals the maximum
StatsStepMaxAtLeast(acc, entry) ==
    [total |-> Add(acc.total, entry.production),
     daysWithProduction |->
        IF Gt(entry.production, 0) THEN acc.daysWithProduction + 1
        ELSE acc.daysWithProduction,
     maxProduction |->
        IF ~Lt(entry.production, acc.maxProduction) /\ entry.production # NaN
        THEN entry.production ELSE acc.maxProduction,
     maxProductionDay |->
        IF ~Lt(entry.production, acc.maxProduction) /\ entry.production # NaN
        THEN entry ELSE acc.maxProductionDay]

\* the reducer of weeklyStats, applied to one entry
StatsStep(acc, entry) ==
    LET production == entry.production
    IN  [total |-> Add(acc.total, production),
         daysWithProduction |->
            IF Gt(production, 0) THEN acc.daysWithProduction + 1
            ELSE acc.daysWithProduction,
         maxProduction |->
            IF Gt(production, acc.maxProduction) THEN production ELSE acc.maxProduction,
         maxProductionDay |->
            IF Gt(production, acc.maxProduction) THEN entry ELSE acc.maxProductionDay]

\* weeklyEntries.reduce(...) over the first n entries
RECURSIVE StatsReduce(_, _)
StatsReduce(week, n) ==
    IF n = 0 THEN StatsStart
    ELSE CHOOSE next \in {StatsStep(acc, week[n]) : acc \in {StatsReduce(week, n - 1)}} :
            TRUE

\* the weeklyStats memo of the component
WeeklyStats(week) ==
    IF Len(week) = 0
    THEN [weeklyTotal |-> 0, dailyAverage |-> Zero, maxProduction |-> 0,
          maxProductionDay |-> NoEntry]
    ELSE LET acc == StatsReduce(week, Len(week))
         IN  [weeklyTotal |-> acc.total,
              dailyAverage |-> IF acc.daysWithProduction > 0
                               THEN Quotient(acc.total, acc.daysWithProduction)
                               ELSE Zero,
              maxProduction |-> acc.maxProduction,
              maxProductionDay |-> acc.maxProductionDay]

\* calculateStats of the worker: entries.reduce((sum, entry) => sum + entry.production, 0)
RECURSIVE SumProduction(_, _)
SumProduction(list, n) ==
    IF n = 0 THEN 0 ELSE Add(SumProduction(list, n - 1), list[n].production)

\* a loop in which a later entry with an equal production replaces the max
RECURSIVE MaxLoopLastWins(_, _)
MaxLoopLastWins(list, n) ==
    IF n = 0 THEN [maxProduction |-> 0, maxProductionDay |-> NoEntry]
    ELSE LET before == MaxLoopLastWins(list, n - 1)
         IN  IF Gt(list[n].production, before.maxProduction)
                \/ (list[n].production = before.maxProduction /\ list[n].production > 0)
             THEN [maxProduction |-> list[n].production, maxProductionDay |-> list[n]]
             ELSE before

\* calculateStats of the worker: the loop that finds the max, over the first n
RECURSIVE MaxLoop(_, _)
MaxLoop(list, n) ==
    IF n = 0 THEN [maxProduction |-> 0, maxProductionDay |-> NoEntry]
    ELSE LET before == MaxLoop(list, n - 1)
         IN  IF Gt(list[n].production, before.maxProduction)
             THEN [maxProduction |-> list[n].production, maxProductionDay |-> list[n]]
             ELSE before

\* a calculateStats whose average is taken over all entries
CalculateStatsAverageOverAll(list) ==
    [weeklyTotal |-> SumProduction(list, Len(list)),
     dailyAverage |-> IF Len(list) > 0
                      THEN Quotient(SumProduction(list, Len(list)), Len(list)) ELSE Zero,
     maxProduction |-> MaxLoop(list, Len(list)).maxProduction,
     maxProductionDay |-> MaxLoop(list, Len(list)).maxProductionDay]

\* calculateStats(entries) of the worker
CalculateStats(list) ==
    LET total == SumProduction(list, Len(list))
        daysWithProduction == Cardinality({i \in 1..Len(list) : Gt(list[i].production, 0)})
    IN  [weeklyTotal |-> total,
         dailyAverage |-> IF daysWithProduction > 0
                          THEN Quotient(total, daysWithProduction) ELSE Zero,
         maxProduction |-> MaxLoop(list, Len(list)).maxProduction,
         maxProductionDay |-> MaxLoop(list, Len(list)).maxProductionDay]

----------------------------------------------------------------------------
(* WeeklySummary: the best-day card *)

\* formattedValues: formattedMax is the value or "-", bestDay the weekday of
\* maxProductionDay or "kWh"
FormattedValues(stats) ==
    [formattedMax |-> IF Gt(stats.maxProduction, 0) THEN "value" ELSE "-",
     bestDay |-> IF Gt(stats.maxProduction, 0) /\ stats.maxProductionDay # NoEntry
                 THEN "day" ELSE "kWh"]

----------------------------------------------------------------------------
(* The chart: SolarChart and the worker's processChartData *)

\* the loop of the maxValue memo, over the first n entries
RECURSIVE ChartMaxLoop(_, _)
ChartMaxLoop(list, n) ==
    IF n = 0 THEN 0
    ELSE CHOOSE next \in {IF Gt(list[n].production, max) THEN list[n].production ELSE max :
                             max \in {ChartMaxLoop(list, n - 1)}} : TRUE

\* the maxValue memo: 10 for no entries, and max || 10
ChartMaxValue(list) ==
    IF Len(list) = 0 THEN 10
    ELSE IF ChartMaxLoop(list, Len(list)) = 0 THEN 10
    ELSE ChartMaxLoop(list, Len(list))

\* a height without the floor of 5
HeightPercentageNoFloor(production, maxValue) ==
    IF production # NaN /\ production <= 0 THEN Quotient(4, 1)
    ELSE Quotient(production * 100, maxValue)

\* isEmpty ? 4 : Math.max(5, (production / maxValue) * 100)
HeightPercentage(production, maxValue) ==
    IF production # NaN /\ production <= 0 THEN Quotient(4, 1)
    ELSE IF production = NaN THEN Quotient(NaN, 1)
    ELSE IF production * 100 >= 5 * maxValue THEN Quotient(production * 100, maxValue)
    ELSE Quotient(5, 1)

\* the chartData memo
ChartData(list, maxValue) ==
    [i \in 1..Len(list) |->
        [key |-> list[i].date,
         index |-> i - 1,
         production |-> list[i].production,
         heightPercentage |-> HeightPercentage(list[i].production, maxValue),
         isEmpty |-> list[i].production # NaN /\ list[i].production <= 0]]

\* Math.max(...entries.map((e) => e.production)) over the first n entries,
\* n > 0
RECURSIVE MathMax(_, _)
MathMax(list, n) ==
    IF n = 1 THEN list[1].production
    ELSE CHOOSE next \in {IF max = NaN \/ list[n].production = NaN THEN NaN
                          ELSE IF list[n].production > max THEN list[n].production
                          ELSE max : max \in {MathMax(list, n - 1)}} : TRUE

\* processChartData(entries) of the worker
ProcessChartData(list) ==
    IF Len(list) = 0 THEN [maxValue |-> 0, processedEntries |-> << >>]
    ELSE [maxValue |-> IF MathMax(list, Len(list)) \in {0, NaN} THEN 10
                       ELSE MathMax(list, Len(list)),
          processedEntries |-> list]

----------------------------------------------------------------------------
(* Persisted payloads and safeStorage *)

Obj(id, d, raw) == [tag |-> "obj", id |-> id, date |-> d, production |-> raw]
NullElem == [tag |-> "null", id |-> NoId, date |-> NoDate, production |-> JsonNull]

\* a well-formed payload of n entries with distinct dates, newest first
WellFormed(n) ==
    [i \in 1..n |->
        Obj(StoredId(i), Today - (i - 1), Num(IF i % 2 = 1 THEN 5 ELSE 100))]

\* a hand-edited payload: an entry without an id, with an out-of-range
\* numeric string; a plain entry that repeats its date; an entry with no date
\* and a non-numeric production; a null; and so on, the plain entry recurring
RawElem(i) ==
    CASE i % 4 = 1 -> Obj(NoId, Today, Str(150))
      [] i % 4 = 2 -> Obj(StoredId(100 + i), Today, Num(5))
      [] i % 4 = 3 -> Obj(StoredId(100 + i), NoDate, Text)
      [] OTHER -> NullElem

\* the slices of at most n elements of that payload
RawPayloads(n) ==
    { [i \in 1..len |-> RawElem(from + i - 1)] : from \in 1..4, len \in 0..n }

Array(elems) == [kind |-> "array", elems |-> elems]
NullValue == [kind |-> "null", elems |-> << >>]

\* well-formed payloads of at most one chunk
SmallStorage ==
    { [kind |-> "absent", elems |-> << >>] } \cup { Array(WellFormed(n)) : n \in 1..2 }

\* the payloads of the time-zone scenarios
ZoneStorage == { Array(WellFormed(ChunkSize + 1)) }

\* nothing persisted, or well-formed entries of more than one chunk
CoreStorage == { [kind |-> "absent", elems |-> << >>], Array(WellFormed(ChunkSize + 1)) }

\* what localStorage may hold under the key at startup: well-formed payloads,
\* malformed JSON, a value that is no array, a full chunk followed by a null,
\* hand-edited payloads
InitialStorage ==
    SmallStorage
    \cup { [kind |-> "badjson", elems |-> << >>], [kind |-> "other", elems |-> << >>] }
    \cup { Array(WellFormed(ChunkSize + k)) : k \in 0..MaxExtra }
    \cup { Array(WellFormed(ChunkSize) \o << NullElem >>) }
    \cup { Array(q) : q \in RawPayloads(MaxRawLen) }

\* a get that reads localStorage whatever the cache holds
SafeGetAlwaysReads(cache, store) ==
    IF store.kind \in {"absent", "badjson"} THEN NullValue ELSE store

\* safeStorage.get(key): the value returned
SafeGet(cache, store) ==
    IF cache.has THEN cache.val
    ELSE IF store.kind \in {"absent", "badjson"} THEN NullValue
    ELSE store

\* safeStorage.get(key): the cache it leaves
CacheAfterGet(cache, store) ==
    IF cache.has \/ store.kind = "badjson" THEN cache
    ELSE [has |-> TRUE, val |-> SafeGet(cache, store)]

\* a dataToSave without the last entry of the list
DataToSaveAllButLast(list) ==
    [i \in 1..(Len(list) - 1) |->
        Obj(list[i].id, list[i].date, ToValue(list[i].production))]

\* dataToSave, as held in memory
DataToSave(list) ==
    [i \in 1..Len(list) |->
        Obj(list[i].id, list[i].date, ToValue(list[i].production))]

\* JSON.stringify(value) written and parsed again
Serialized(elems) ==
    [i \in 1..Len(elems) |-> [elems[i] EXCEPT !.production = JsonRoundTrip(@)]]

----------------------------------------------------------------------------
(* The startup load: processChunk *)

Min(a, b) == IF a < b THEN a ELSE b

\* number of elements without an id among the first i of a chunk
Missing(chunk, i) == Cardinality({j \in 1..i : ~Truthy(chunk[j].id)})

\* chunk.map(...): the processed chunk, fresh ids counted from n
ProcessedChunk(chunk, n) ==
    [i \in 1..Len(chunk) |->
        [id |-> IF Truthy(chunk[i].id) THEN chunk[i].id
                ELSE RandomUUID(n + Missing(chunk, i) - 1),
         date |-> chunk[i].date,
         production |-> NumberOf(chunk[i].production)]]

ChunkOf(elems, start) == SubSeq(elems, start + 1, Min(start + ChunkSize, Len(elems)))

\* the chunk cannot be mapped: the value is no array or an element is null
ChunkThrows(value, start) ==
    \/ value.kind # "array"
    \/ \E i \in 1..Len(ChunkOf(value.elems, start)) :
            ChunkOf(value.elems, start)[i].tag = "null"

----------------------------------------------------------------------------
(* Inputs *)

TimeZones == {0 - 1, 0, 1}
SelDays == {Today - 2, Today - 1, Today + 1}
EditDays == {Today, Today + 1}
ManualDays == {Today, Today + 1}
\* the values typed into the form and into a day card's edit input; away from
\* UTC the scenarios vary the dates, and one accepted value of each input (and
\* one refused edit) is typed
SubmitInputs == IF tz = 0 THEN {0, 5, 101} ELSE {5}
EditInputs == IF tz = 0 THEN {100, 0 - 1, 101, NaN} ELSE {100, 101}

\* formSchema: z.coerce.number().nonnegative().max(100)
FormSchemaOk(v) == v # NaN /\ v >= 0 /\ v <= 100

----------------------------------------------------------------------------
(* Initial state: the first render has run, its effects have not *)

Start(zones, times, payloads) ==
    /\ tz \in zones
    /\ \E tod \in times : today = Today * TicksPerDay + tod - tz
    /\ stored \in payloads
    /\ persisted0 = stored
    /\ date = NULL
    /\ entries = << >>
    /\ isLoading = TRUE
    /\ isInitialized = FALSE
    /\ forceUpdate = 0
    /\ editingDay = NULL
    /\ editValue = 0
    /\ chart = NoChart
    /\ entriesRef = << >>
    /\ entriesMapRef = EmptyMap
    /\ weeklyEntriesCache = NoCache
    /\ pendingUpdatesRef = EmptyMap
    /\ saveTimeoutRef = NoTimer
    /\ saveTimers = {}
    /\ initialRenderRef = TRUE
    /\ weeklyEntries = << >>
    /\ weeklyStats = WeeklyStats(<< >>)
    /\ storageCache = [has |-> FALSE, val |-> NullValue]
    /\ mounted = TRUE
    /\ loadPc = "none"
    /\ loadIndex = 0
    /\ savedEntries = NullValue
    /\ nextId = 0
    /\ uuidEpoch = 0
    /\ phase = "mount"
    /\ changed = {}
    /\ queued = NoUpdate
    /\ saveCleanup = FALSE
    /\ lastUpsert = [made |-> FALSE, date |-> NoDate, production |-> 0, id |-> NoId]
    /\ lastCall = [made |-> FALSE, anchor |-> NULL, mutated |-> FALSE,
                   hit |-> FALSE, repeat |-> FALSE, same |-> FALSE]
    /\ lastWrite = [made |-> FALSE, ok |-> FALSE, superseded |-> FALSE]

\* any persisted payload, in a browser on UTC, in the morning
Init == Start({0}, {0}, InitialStorage)

\* a browser east of UTC in the morning or west of UTC in the evening: the
\* instants whose local calendar day is not their UTC day
InitZones ==
    \/ Start({1}, {0}, ZoneStorage)
    \/ Start({0 - 1}, {TicksPerDay - 1}, ZoneStorage)

\* a browser on UTC, in the morning, with the core payloads
InitCore == Start({0}, {0}, CoreStorage)

\* history: the step changes the entries list, the map or the overlay
Mutates ==
    \/ entries' # entries
    \/ entriesMapRef' # entriesMapRef
    \/ pendingUpdatesRef' # pendingUpdatesRef

Track == lastCall' = [lastCall EXCEPT !.mutated = @ \/ Mutates]

\* history: the step is an upsert, whatever it changes
TrackUpsert == lastCall' = [lastCall EXCEPT !.mutated = TRUE]

----------------------------------------------------------------------------
(* Render: the queued updater, then the memoized week *)

\* editValue is read only by the edit input and its handlers, and
\* handleEditDay sets it before the input is shown: once a render has taken
\* the input away, the text left in it is held as the empty text
EditValueKept(editing, value) == IF editing = NULL THEN 0 ELSE value

Render ==
    /\ phase = "render"
    /\ phase' = "effects"
    /\ editValue' = EditValueKept(editingDay, editValue)
    /\ UNCHANGED << chart, date, isLoading, isInitialized, forceUpdate, editingDay,
                    pendingUpdatesRef, saveTimeoutRef, saveTimers, initialRenderRef,
                    today, tz, stored, storageCache, mounted, loadPc, loadIndex,
                    savedEntries, changed, saveCleanup, persisted0, lastUpsert, lastWrite >>
    /\ LET upsert == queued.kind = "upsert"
           list1 == IF upsert
                    THEN UpsertEntries(entries, queued.date, queued.production, nextId)
                    ELSE entries
           map1 == IF upsert
                   THEN UpsertMap(entriesMapRef, entries, queued.date, queued.production, nextId)
                   ELSE entriesMapRef
           calls == "date" \in changed \/ "forceUpdate" \in changed
           fresh == 1 - uuidEpoch
           miss == date # NULL /\ ~CacheHit(date, weeklyEntriesCache)
           result == GetCurrentWeekEntries(date, weeklyEntriesCache, map1,
                                           pendingUpdatesRef, fresh)
       IN  /\ entries' = list1
           /\ entriesMapRef' = map1
           /\ entriesRef' = IF upsert THEN list1 ELSE entriesRef
           /\ nextId' = IF upsert /\ FindIndex(entries, queued.date) = 0
                        THEN nextId + 1 ELSE nextId
           /\ queued' = NoUpdate
           /\ IF calls
              THEN /\ weeklyEntries' = result
                   /\ weeklyStats' = WeeklyStats(weeklyEntries')
                   /\ weeklyEntriesCache' =
                        CacheAfter(date, weeklyEntriesCache, map1, pendingUpdatesRef, fresh)
                   /\ uuidEpoch' = IF miss THEN fresh ELSE uuidEpoch
                   /\ lastCall' = [made |-> TRUE, anchor |-> date, mutated |-> FALSE,
                                   hit |-> ~miss /\ date # NULL,
                                   repeat |-> /\ lastCall.made
                                              /\ lastCall.anchor = date
                                              /\ ~lastCall.mutated
                                              /\ ~upsert,
                                   same |-> result = weeklyEntries]
              ELSE /\ UNCHANGED << weeklyEntries, weeklyStats, weeklyEntriesCache, uuidEpoch >>
                   /\ Track

----------------------------------------------------------------------------
(* Effects: the save effect, when entries, isLoading or isInitialized changed *)

\* window.setTimeout(...): the handle of the new timer
SetTimeout(timers) ==
    CHOOSE id \in 1..(Cardinality(timers) + 1) :
        /\ \A t \in timers : t.id # id
        /\ \A j \in 1..(id - 1) : \E t \in timers : t.id = j

\* a clearTimeout that leaves the timer armed
ClearTimeoutKeeps(timers, id) == timers

\* clearTimeout(id)
ClearTimeout(timers, id) == {t \in timers : t.id # id}

\* the cleanup the save effect returned, run before the effect runs again:
\* if (saveTimeoutRef.current) clearTimeout(saveTimeoutRef.current)
SaveEffectCleanup(timers, ref, cleanup) ==
    IF cleanup /\ ref # NoTimer THEN ClearTimeout(timers, ref) ELSE timers

\* the timer is armed for this handle
Armed(timers, ref) == \E t \in timers : t.id = ref

\* the dependencies of the save effect: [entries, isLoading, isInitialized]
SaveEffectRuns == changed \cap {"entries", "isLoading", "isInitialized"} # {}

\* a save effect that never returns early
SaveEffectNeverSkips == FALSE

\* if (isLoading || !isInitialized || initialRenderRef.current) return
SaveEffectSkips == isLoading \/ ~isInitialized \/ initialRenderRef

\* the save effect: the cleanup of its previous run, then its body
SaveEffect ==
    IF SaveEffectSkips
    THEN /\ initialRenderRef' = FALSE
         /\ saveCleanup' = FALSE
         /\ saveTimers' = SaveEffectCleanup(saveTimers, saveTimeoutRef, saveCleanup)
         /\ UNCHANGED << entriesRef, entriesMapRef, saveTimeoutRef >>
    ELSE LET cleaned == SaveEffectCleanup(saveTimers, saveTimeoutRef, saveCleanup)
             cleared == IF saveTimeoutRef # NoTimer
                        THEN ClearTimeout(cleaned, saveTimeoutRef) ELSE cleaned
             id == SetTimeout(cleared)
         IN  /\ entriesRef' = entries
             /\ entriesMapRef' = RebuildMap(entries)
             /\ saveTimeoutRef' = id
             /\ saveTimers' = cleared \cup
                     { [id |-> id, snapshot |-> entries,
                        superseded |-> Armed(saveTimers, saveTimeoutRef)] }
             /\ saveCleanup' = TRUE
             /\ UNCHANGED initialRenderRef

\* the effects of the first render: the save effect, the load effect, and the
\* effect that sets the date
MountEffects ==
    /\ phase = "mount"
    /\ date' = today
    /\ SaveEffect
    /\ loadPc' = "timer"
    /\ changed' = {"date"}
    /\ phase' = "render"
    /\ UNCHANGED << chart, entries, isLoading, isInitialized, forceUpdate, editingDay, editValue,
                    weeklyEntriesCache, pendingUpdatesRef,
                    weeklyEntries, weeklyStats, today, tz, stored,
                    storageCache, mounted, loadIndex, savedEntries, nextId, uuidEpoch,
                    queued, persisted0, lastUpsert, lastWrite, lastCall >>

RunEffects ==
    /\ phase = "effects"
    /\ IF ~SaveEffectRuns
       THEN UNCHANGED << entriesRef, entriesMapRef, saveTimeoutRef, saveTimers,
                         initialRenderRef, saveCleanup >>
       ELSE SaveEffect
    /\ phase' = "idle"
    /\ changed' = {}
    /\ UNCHANGED << chart, date, entries, isLoading, isInitialized, forceUpdate, editingDay, editValue,
                    weeklyEntriesCache, pendingUpdatesRef, weeklyEntries, weeklyStats, today, tz,
                    stored, storageCache, mounted, loadPc, loadIndex, savedEntries,
                    nextId, uuidEpoch, queued, persisted0, lastUpsert, lastWrite >>
    /\ Track

----------------------------------------------------------------------------
(* The startup load *)

\* the 100 ms timer of the load effect: loadEntries
LoadTimer ==
    /\ phase = "idle"
    /\ loadPc = "timer"
    /\ mounted
    /\ savedEntries' = SafeGet(storageCache, stored)
    /\ storageCache' = CacheAfterGet(storageCache, stored)
    /\ IF savedEntries'.kind # "null"
       THEN /\ loadPc' = "idleCallback"
            /\ UNCHANGED << isLoading, isInitialized, phase, changed >>
       ELSE /\ loadPc' = "done"
            /\ isLoading' = FALSE
            /\ isInitialized' = TRUE
            /\ phase' = "render"
            /\ changed' = {"isLoading", "isInitialized"}
    /\ UNCHANGED << chart, date, entries, forceUpdate, editingDay, editValue, entriesRef, entriesMapRef,
                    weeklyEntriesCache, pendingUpdatesRef, saveTimeoutRef, saveTimers,
                    initialRenderRef, weeklyEntries, weeklyStats, today, tz, stored, mounted,
                    loadIndex, nextId, uuidEpoch, queued, saveCleanup, persisted0, lastUpsert, lastWrite,
                    lastCall >>

\* processChunk(savedEntries, start, 50)
ChunkStep(start) ==
    LET elems == savedEntries.elems
        endIndex == Min(start + ChunkSize, Len(elems))
        processedChunk == ProcessedChunk(ChunkOf(elems, start), nextId)
    IN  IF ChunkThrows(savedEntries, start)
        THEN /\ loadPc' = "crashed"
             /\ UNCHANGED << entries, entriesRef, entriesMapRef, isLoading,
                             isInitialized, loadIndex, nextId, phase, changed >>
        ELSE /\ entriesMapRef' = SetAll(entriesMapRef, processedChunk, 1)
             /\ nextId' = nextId + Missing(ChunkOf(elems, start), endIndex - start)
             /\ IF endIndex < Len(elems) /\ mounted
                THEN /\ loadPc' = "chunk"
                     /\ loadIndex' = endIndex
                     /\ UNCHANGED << entries, entriesRef, isLoading, isInitialized,
                                     phase, changed >>
                ELSE IF mounted
                THEN /\ entries' = entries \o processedChunk
                     /\ entriesRef' = entriesRef \o processedChunk
                     /\ isLoading' = FALSE
                     /\ isInitialized' = TRUE
                     /\ loadPc' = "done"
                     /\ phase' = "render"
                     /\ changed' = {"entries", "isLoading", "isInitialized"}
                     /\ UNCHANGED loadIndex
                ELSE /\ loadPc' = "dropped"
                     /\ UNCHANGED << entries, entriesRef, isLoading, isInitialized,
                                     loadIndex, phase, changed >>

LoadRest ==
    UNCHANGED << chart, date, forceUpdate, editingDay, editValue, weeklyEntriesCache, pendingUpdatesRef,
                 saveTimeoutRef, saveTimers, initialRenderRef, weeklyEntries, weeklyStats, today, tz,
                 stored, storageCache, mounted, savedEntries, uuidEpoch, queued,
                 saveCleanup, persisted0, lastUpsert, lastWrite >>

\* the idle callback: processEntries
ProcessEntries ==
    /\ phase \in {"idle", "unmounted"}
    /\ loadPc = "idleCallback"
    /\ IF mounted
       THEN ChunkStep(0)
       ELSE /\ loadPc' = "dropped"
            /\ UNCHANGED << entries, entriesRef, entriesMapRef, isLoading,
                            isInitialized, loadIndex, nextId, phase, changed >>
    /\ LoadRest
    /\ Track

\* a chunk scheduled by setTimeout(..., 0)
ProcessChunk ==
    /\ phase \in {"idle", "unmounted"}
    /\ loadPc = "chunk"
    /\ ChunkStep(loadIndex)
    /\ LoadRest
    /\ Track

----------------------------------------------------------------------------
(* The debounced write and teardown *)

\* safeStorage.set(key, value): the cache it leaves, written before the store
CacheAfterSet(value) == [has |-> TRUE, val |-> value]

\* a callback that empties the entries list when the write fails
SaveTimerCallbackRollsBack(t, ok) ==
    /\ phase \in {"idle", "unmounted"}
    /\ t \in saveTimers
    /\ storageCache' = CacheAfterSet(Array(DataToSave(t.snapshot)))
    /\ stored' = IF ok THEN Array(Serialized(DataToSave(t.snapshot))) ELSE stored
    /\ entries' = IF ok THEN entries ELSE << >>
    /\ saveTimeoutRef' = NoTimer
    /\ saveTimers' = saveTimers \ {t}
    /\ lastWrite' = [made |-> TRUE, ok |-> ok, superseded |-> t.superseded]
    /\ UNCHANGED << chart, date, isLoading, isInitialized, forceUpdate, editingDay, editValue,
                    entriesRef, entriesMapRef, weeklyEntriesCache, pendingUpdatesRef,
                    initialRenderRef, weeklyEntries, weeklyStats, today, tz, mounted,
                    loadPc, loadIndex, savedEntries, nextId, uuidEpoch, phase, changed,
                    queued, saveCleanup, persisted0, lastUpsert, lastCall >>

\* the callback of the 500 ms timer t of the save effect
SaveTimerCallback(t, ok) ==
    /\ phase \in {"idle", "unmounted"}
    /\ t \in saveTimers
    /\ storageCache' = CacheAfterSet(Array(DataToSave(t.snapshot)))
    /\ stored' = IF ok THEN Array(Serialized(DataToSave(t.snapshot))) ELSE stored
    /\ saveTimeoutRef' = NoTimer
    /\ saveTimers' = saveTimers \ {t}
    /\ lastWrite' = [made |-> TRUE, ok |-> ok, superseded |-> t.superseded]
    /\ UNCHANGED << chart, date, entries, isLoading, isInitialized, forceUpdate, editingDay, editValue,
                    entriesRef, entriesMapRef, weeklyEntriesCache, pendingUpdatesRef,
                    initialRenderRef, weeklyEntries, weeklyStats, today, tz, mounted,
                    loadPc, loadIndex, savedEntries, nextId, uuidEpoch, phase, changed,
                    queued, saveCleanup, persisted0, lastUpsert, lastCall >>

\* the timer fires and localStorage.setItem succeeds
SaveTimerFire == \E t \in saveTimers : SaveTimerCallback(t, TRUE)

\* the timer fires and localStorage.setItem throws (quota, storage unavailable)
SaveTimerFails == \E t \in saveTimers : SaveTimerCallback(t, FALSE)

\* cleanups that leave the timer armed
UnmountCleanupKeeps(timers, ref) == timers

\* the cleanups run at unmount: the save effect's, if it returned one, and
\* the timers effect's; both clear the timer of saveTimeoutRef.current
UnmountCleanup(timers, ref) ==
    IF ref # NoTimer THEN ClearTimeout(timers, ref) ELSE timers

\* unmount: the cleanups of the load effect, the save effect and the timers effect
Unmount ==
    /\ phase = "idle"
    /\ mounted
    /\ mounted' = FALSE
    /\ phase' = "unmounted"
    /\ loadPc' = IF loadPc = "timer" THEN "cancelled" ELSE loadPc
    /\ saveTimers' = UnmountCleanup(saveTimers, saveTimeoutRef)
    /\ UNCHANGED << chart, date, entries, isLoading, isInitialized, forceUpdate, editingDay, editValue,
                    entriesRef, entriesMapRef, weeklyEntriesCache, pendingUpdatesRef,
                    saveTimeoutRef, initialRenderRef, weeklyEntries, weeklyStats, today,
                    tz, stored, storageCache, loadIndex, savedEntries, nextId, uuidEpoch,
                    changed, queued, saveCleanup, persisted0, lastUpsert, lastWrite,
                    lastCall >>

----------------------------------------------------------------------------
(* User operations *)

\* the screen takes input, and no inline edit input is open
CanAct == phase = "idle" /\ mounted /\ date # NULL

EditInputShown == editingDay # NULL /\ editingDay \in WeekDates(weeklyEntries)

ClearedCache == [has |-> FALSE, val |-> NullValue]

\* a handler that leaves the week cache as it was
InvalidatedCacheKept(cache) == cache

\* weeklyEntriesCache.current = null
InvalidatedCache(cache) == NoCache

\* handleDateChange(newDate): a day picked in the calendar
SelectDate(day) ==
    /\ CanAct
    /\ ~EditInputShown
    /\ ~(CalendarDate(day) > today)
    /\ date' = CalendarDate(day)
    /\ changed' = {"date"}
    /\ phase' = "render"
    /\ UNCHANGED << chart, entries, isLoading, isInitialized, forceUpdate, editingDay, editValue,
                    entriesRef, entriesMapRef, weeklyEntriesCache, pendingUpdatesRef,
                    saveTimeoutRef, saveTimers, initialRenderRef, weeklyEntries, weeklyStats, today,
                    tz, stored, storageCache, mounted, loadPc, loadIndex, savedEntries,
                    nextId, uuidEpoch, queued, saveCleanup, persisted0, lastUpsert, lastWrite, lastCall >>

\* handleManualDateChange(), the date input holding the text of a day: the
\* text is parsed by new Date(manualDate)
ManualDate(day) ==
    /\ CanAct
    /\ ~EditInputShown
    /\ ~(NewDate(day) > today)
    /\ date' = NewDate(day)
    /\ changed' = {"date"}
    /\ phase' = "render"
    /\ UNCHANGED << chart, entries, isLoading, isInitialized, forceUpdate, editingDay, editValue,
                    entriesRef, entriesMapRef, weeklyEntriesCache, pendingUpdatesRef,
                    saveTimeoutRef, saveTimers, initialRenderRef, weeklyEntries, weeklyStats, today,
                    tz, stored, storageCache, mounted, loadPc, loadIndex, savedEntries,
                    nextId, uuidEpoch, queued, saveCleanup, persisted0, lastUpsert, lastWrite, lastCall >>

\* onSubmit(values), with updateEntriesState
Submit(v) ==
    /\ CanAct
    /\ ~EditInputShown
    /\ ~isLoading
    /\ forceUpdate < MaxForceUpdate
    /\ FormSchemaOk(v)
    /\ ~(date > today)
    /\ LET formattedDate == Format(date)
           productionValue == IF v = 0 THEN 0 ELSE v
           updatedEntries == SubmitEntries(entries, entriesMapRef, formattedDate,
                                           productionValue, nextId)
       IN  /\ entries' = updatedEntries
           /\ entriesRef' = updatedEntries
           /\ entriesMapRef' = RebuildMap(updatedEntries)
           /\ nextId' = IF formattedDate \in DOMAIN entriesMapRef
                        THEN nextId ELSE nextId + 1
           /\ lastUpsert' = [made |-> TRUE, date |-> formattedDate,
                             production |-> productionValue,
                             id |-> IF formattedDate \in DOMAIN entriesMapRef
                                    THEN entriesMapRef[formattedDate].id ELSE NoId]
    /\ weeklyEntriesCache' = InvalidatedCache(weeklyEntriesCache)
    /\ forceUpdate' = forceUpdate + 1
    /\ storageCache' = ClearedCache
    /\ changed' = {"entries", "forceUpdate"}
    /\ phase' = "render"
    /\ UNCHANGED << chart, date, isLoading, isInitialized, editingDay, editValue, pendingUpdatesRef,
                    saveTimeoutRef, saveTimers, initialRenderRef, weeklyEntries, weeklyStats, today,
                    tz, stored, mounted, loadPc, loadIndex, savedEntries, uuidEpoch,
                    queued, saveCleanup, persisted0, lastWrite >>
    /\ TrackUpsert

\* the day card of a date of the week shown
CardOf(week, day) == week[CHOOSE i \in 1..Len(week) : week[i].date = day]

\* setEditValue(entry.production > 0 ? entry.production.toString() : ""), the
\* empty text being read back as 0
EditValueOf(entry) == IF Gt(entry.production, 0) THEN entry.production ELSE 0

\* handleEditDay(entry): a day card is clicked
EditDay(day) ==
    /\ CanAct
    /\ ~isLoading
    /\ editingDay = NULL
    /\ day \in WeekDates(weeklyEntries)
    /\ ~(NewDate(day) > today)
    /\ date' = NewDate(day)
    /\ editingDay' = day
    /\ editValue' = EditValueOf(CardOf(weeklyEntries, day))
    /\ changed' = {"date", "editingDay"}
    /\ phase' = "render"
    /\ UNCHANGED << chart, entries, isLoading, isInitialized, forceUpdate, entriesRef,
                    entriesMapRef, weeklyEntriesCache, pendingUpdatesRef,
                    saveTimeoutRef, saveTimers, initialRenderRef, weeklyEntries, weeklyStats, today,
                    tz, stored, storageCache, mounted, loadPc, loadIndex, savedEntries,
                    nextId, uuidEpoch, queued, saveCleanup, persisted0, lastUpsert, lastWrite, lastCall >>

\* Escape, or a click outside the edit input
CancelEdit ==
    /\ CanAct
    /\ EditInputShown
    /\ editingDay' = NULL
    /\ changed' = {"editingDay"}
    /\ phase' = "render"
    /\ UNCHANGED << chart, editValue, date, entries, isLoading, isInitialized, forceUpdate, entriesRef,
                    entriesMapRef, weeklyEntriesCache, pendingUpdatesRef,
                    saveTimeoutRef, saveTimers, initialRenderRef, weeklyEntries, weeklyStats, today,
                    tz, stored, storageCache, mounted, loadPc, loadIndex, savedEntries,
                    nextId, uuidEpoch, queued, saveCleanup, persisted0, lastUpsert, lastWrite, lastCall >>

\* an updateEntry that refuses negative values only
UpdateRejectsBelowZero(v) == Lt(v, 0)

\* updateEntry(date, production) refuses the value
UpdateRejects(v) == Lt(v, 0) \/ Gt(v, 100)

\* a value is typed, then Enter or blur, and updateEntry refuses the value:
\* only the edit is closed
RejectEdit(v) ==
    /\ CanAct
    /\ EditInputShown
    /\ v # NaN
    /\ UpdateRejects(v)
    /\ editValue' = v
    /\ editingDay' = NULL
    /\ changed' = {"editingDay"}
    /\ phase' = "render"
    /\ UNCHANGED << chart, date, entries, isLoading, isInitialized, forceUpdate, entriesRef,
                    entriesMapRef, weeklyEntriesCache, pendingUpdatesRef,
                    saveTimeoutRef, saveTimers, initialRenderRef, weeklyEntries, weeklyStats, today,
                    tz, stored, storageCache, mounted, loadPc, loadIndex, savedEntries,
                    nextId, uuidEpoch, queued, saveCleanup, persisted0, lastUpsert, lastWrite, lastCall >>

\* a value is typed, then Enter or blur: updateEntry(entry.date, value) up to
\* setForceUpdate; the updater given to setEntries runs at once (eager) or in
\* the next render
UpdateEntryStart(v, eager) ==
    /\ CanAct
    /\ EditInputShown
    /\ forceUpdate < MaxForceUpdate
    /\ v # NaN
    /\ ~UpdateRejects(v)
    /\ editValue' = v
    /\ pendingUpdatesRef' = MapSet(pendingUpdatesRef, editingDay, v)
    /\ IF eager
       THEN /\ entries' = UpsertEntries(entries, editingDay, v, nextId)
            /\ entriesMapRef' = UpsertMap(entriesMapRef, entries, editingDay, v, nextId)
            /\ entriesRef' = entries'
            /\ nextId' = IF FindIndex(entries, editingDay) = 0 THEN nextId + 1 ELSE nextId
            /\ queued' = NoUpdate
       ELSE /\ queued' = [kind |-> "upsert", date |-> editingDay, production |-> v]
            /\ UNCHANGED << entries, entriesMapRef, entriesRef, nextId >>
    /\ lastUpsert' = [made |-> TRUE, date |-> editingDay, production |-> v,
                      id |-> IF editingDay \in DOMAIN entriesMapRef
                             THEN entriesMapRef[editingDay].id ELSE NoId]
    /\ weeklyEntriesCache' = InvalidatedCache(weeklyEntriesCache)
    /\ storageCache' = ClearedCache
    /\ forceUpdate' = forceUpdate + 1
    /\ changed' = {"entries", "forceUpdate"}
    /\ phase' = "updating"
    /\ UNCHANGED << chart, date, isLoading, isInitialized, editingDay, saveTimeoutRef,
                    saveTimers, initialRenderRef, weeklyEntries, weeklyStats, today, tz, stored,
                    mounted, loadPc, loadIndex, savedEntries, uuidEpoch, saveCleanup,
                    persisted0, lastWrite >>
    /\ TrackUpsert

\* the rest of updateEntry and of its caller: the pending value is deleted
\* and the edit is closed
UpdateEntryFinish ==
    /\ phase = "updating"
    /\ pendingUpdatesRef' = MapDelete(pendingUpdatesRef, editingDay)
    /\ editingDay' = NULL
    /\ changed' = changed \cup {"editingDay"}
    /\ phase' = "render"
    /\ UNCHANGED << chart, editValue, date, entries, isLoading, isInitialized, forceUpdate, entriesRef,
                    entriesMapRef, weeklyEntriesCache, saveTimeoutRef, saveTimers,
                    initialRenderRef, weeklyEntries, weeklyStats, today, tz, stored, storageCache,
                    mounted, loadPc, loadIndex, savedEntries, nextId, uuidEpoch, queued,
                    saveCleanup, persisted0, lastUpsert, lastWrite >>
    /\ Track

----------------------------------------------------------------------------

Next ==
    \/ MountEffects
    \/ Render
    \/ RunEffects
    \/ LoadTimer
    \/ ProcessEntries
    \/ ProcessChunk
    \/ SaveTimerFire
    \/ SaveTimerFails
    \/ Unmount
    \/ \E day \in SelDays : SelectDate(day)
    \/ \E day \in ManualDays : ManualDate(day)
    \/ \E v \in SubmitInputs : Submit(v)
    \/ \E day \in EditDays : EditDay(day)
    \/ CancelEdit
    \/ \E v \in EditInputs : RejectEdit(v)
    \/ \E v \in EditInputs, eager \in BOOLEAN : UpdateEntryStart(v, eager)
    \/ UpdateEntryFinish

Spec == Init /\ [][Next]_vars

SpecZones == InitZones /\ [][Next]_vars

SpecCore == InitCore /\ [][Next]_vars

\* React runs a scheduled render and its effects, a handler that has started
\* runs to its end, and the browser runs the callback of a timer that is due
\* even if the user keeps the page busy
Fairness ==
    /\ WF_vars(MountEffects \/ Render \/ RunEffects \/ UpdateEntryFinish)
    /\ SF_vars(LoadTimer \/ ProcessEntries \/ ProcessChunk
                  \/ SaveTimerFire \/ SaveTimerFails)

\* well-formed entries of more than one chunk; one entry of yesterday whose
\* production is not numeric; malformed JSON; a JSON value that is no array;
\* an array whose only element is null
LiveStorage ==
    { Array(WellFormed(ChunkSize + 1)), Array(<< Obj(StoredId(1), Today - 1, Text) >>),
      [kind |-> "badjson", elems |-> << >>], [kind |-> "other", elems |-> << >>],
      Array(<< NullElem >>) }

\* a browser on UTC, in the morning
InitLive == Start({0}, {0}, LiveStorage)

SpecLive == InitLive /\ [][Next]_vars /\ Fairness

----------------------------------------------------------------------------
(* The week window and the statistics as functions of their inputs *)

\* the Sunday of today's week
ThisSunday == 7 * WeeksBack

\* date-keyed maps and overlays over the Saturday before, the Sunday and the
\* Monday of today's week
PureDays == {ThisSunday - 1, ThisSunday, ThisSunday + 1}
StoreValues == {0, 3}
OverlayValues == {0, 7}
PureMaps ==
    UNION { { [d \in S |-> [id |-> StoredId(d), date |-> d, production |-> f[d]]] :
                f \in [S -> StoreValues] } : S \in SUBSET PureDays }
PureOverlays == UNION { [S -> OverlayValues] : S \in SUBSET PureDays }
PureAnchors == {NewDate(Today), NewDate(ThisSunday)}

\* the week sequences handed to the statistics
StatValues == {2 * k : k \in 0..MaxStatStep}
StatWeeks ==
    { << >> } \cup
    { [i \in 1..7 |-> [date |-> ThisSunday + i - 1, production |-> f[i],
                       id |-> PlaceholderUUID(0, i - 1)]] : f \in [1..7 -> StatValues] }

\* the sequences handed to the chart
ChartValues == {0 - 1, 0, 1, 50, 100}
ChartInputs ==
    UNION { { [i \in 1..n |-> [date |-> ThisSunday + i - 1, production |-> f[i],
                               id |-> PlaceholderUUID(0, i - 1)]] :
                f \in [1..n -> ChartValues] } : n \in 0..MaxChartLen }

\* the component's variables, which the functions do not read
PureIdle ==
    /\ tz = 0
    /\ today = NewDate(Today)
    /\ persisted0 = stored
    /\ entries = << >>
    /\ isLoading = FALSE
    /\ isInitialized = TRUE
    /\ forceUpdate = 0
    /\ editingDay = NULL
    /\ editValue = 0
    /\ chart = NoChart
    /\ entriesRef = << >>
    /\ weeklyEntriesCache = NoCache
    /\ saveTimeoutRef = NoTimer
    /\ saveTimers = {}
    /\ initialRenderRef = FALSE
    /\ weeklyStats = WeeklyStats(<< >>)
    /\ mounted = TRUE
    /\ loadPc = "done"
    /\ loadIndex = 0
    /\ nextId = 0
    /\ uuidEpoch = 0
    /\ changed = {}
    /\ queued = NoUpdate
    /\ saveCleanup = FALSE
    /\ lastUpsert = [made |-> FALSE, date |-> NoDate, production |-> 0, id |-> NoId]
    /\ lastCall = [made |-> FALSE, anchor |-> NULL, mutated |-> FALSE,
                   hit |-> FALSE, repeat |-> FALSE, same |-> FALSE]
    /\ lastWrite = [made |-> FALSE, ok |-> FALSE, superseded |-> FALSE]

\* the variables the functions of the week, the statistics and the chart do
\* not read
PureRest ==
    /\ stored = [kind |-> "absent", elems |-> << >>]
    /\ storageCache = [has |-> FALSE, val |-> NullValue]
    /\ savedEntries = NullValue
    /\ PureIdle

\* a map, an overlay and an anchor for getCurrentWeekEntries
InitWeek ==
    /\ phase = "week"
    /\ date \in PureAnchors
    /\ entriesMapRef \in PureMaps
    /\ pendingUpdatesRef \in PureOverlays
    /\ weeklyEntries = << >>
    /\ PureRest

\* sequences of any length for the statistics, with negative and non-numeric
\* productions
StatListValues == {0 - 1, 0, 1, 50, NaN}
StatLists ==
    UNION { { [i \in 1..n |-> [date |-> ThisSunday + i - 1, production |-> f[i],
                               id |-> PlaceholderUUID(0, i - 1)]] :
                f \in [1..n -> StatListValues] } : n \in 0..MaxChartLen }

\* a week sequence for the statistics
InitStats ==
    /\ phase = "stats"
    /\ date = NewDate(Today)
    /\ entriesMapRef = EmptyMap
    /\ pendingUpdatesRef = EmptyMap
    /\ weeklyEntries \in StatWeeks
    /\ PureRest

\* a sequence of entries for the chart
InitChart ==
    /\ phase = "chart"
    /\ date = NewDate(Today)
    /\ entriesMapRef = EmptyMap
    /\ pendingUpdatesRef = EmptyMap
    /\ weeklyEntries \in ChartInputs
    /\ PureRest

\* a sequence of entries of any kind for the statistics
InitStatLists ==
    /\ phase = "statsRaw"
    /\ date = NewDate(Today)
    /\ entriesMapRef = EmptyMap
    /\ pendingUpdatesRef = EmptyMap
    /\ weeklyEntries \in StatLists
    /\ PureRest

InitPure == InitWeek \/ InitStats \/ InitStatLists \/ InitChart

\* getCurrentWeekEntries() is called
CallGetCurrentWeekEntries ==
    /\ phase = "week"
    /\ weeklyEntries' = GetCurrentWeekEntries(date, weeklyEntriesCache, entriesMapRef,
                                              pendingUpdatesRef, 1)
    /\ weeklyEntriesCache' = CacheAfter(date, weeklyEntriesCache, entriesMapRef,
                                        pendingUpdatesRef, 1)
    /\ uuidEpoch' = 1
    /\ phase' = "weekDone"
    /\ UNCHANGED << chart, date, entries, isLoading, isInitialized, forceUpdate, editingDay, editValue,
                    entriesRef, entriesMapRef, pendingUpdatesRef, saveTimeoutRef,
                    saveTimers, initialRenderRef, weeklyStats, today, tz, stored,
                    storageCache, mounted, loadPc, loadIndex, savedEntries, nextId,
                    changed, queued, saveCleanup, persisted0, lastUpsert, lastCall,
                    lastWrite >>

PureUnchanged ==
    UNCHANGED << date, entries, isLoading, isInitialized, forceUpdate, editingDay, editValue,
                 entriesRef, entriesMapRef, weeklyEntriesCache, pendingUpdatesRef,
                 saveTimeoutRef, saveTimers, initialRenderRef, weeklyEntries, today, tz,
                 stored, storageCache, mounted, loadPc, loadIndex, savedEntries, nextId,
                 uuidEpoch, changed, queued, saveCleanup, persisted0, lastUpsert,
                 lastCall, lastWrite >>

\* the weeklyStats memo is computed from the week
ComputeWeeklyStats ==
    /\ phase \in {"stats", "weekDone", "statsRaw"}
    /\ weeklyStats' = WeeklyStats(weeklyEntries)
    /\ phase' = IF phase = "statsRaw" THEN "statsRawDone" ELSE "statsDone"
    /\ UNCHANGED chart
    /\ PureUnchanged

\* the worker's calculateStats is applied to the week
WorkerCalculateStats ==
    /\ phase \in {"stats", "statsRaw"}
    /\ weeklyStats' = CalculateStats(weeklyEntries)
    /\ phase' = IF phase = "statsRaw" THEN "workerRawDone" ELSE "workerDone"
    /\ UNCHANGED chart
    /\ PureUnchanged

\* SolarChart is rendered with the entries
RenderSolarChart ==
    /\ phase = "chart"
    /\ chart' = [maxValue |-> ChartMaxValue(weeklyEntries),
                 bars |-> ChartData(weeklyEntries, ChartMaxValue(weeklyEntries))]
    /\ phase' = "chartDone"
    /\ UNCHANGED weeklyStats
    /\ PureUnchanged

\* the worker's processChartData is applied to the entries
WorkerProcessChartData ==
    /\ phase = "chart"
    /\ chart' = [maxValue |-> ProcessChartData(weeklyEntries).maxValue,
                 bars |-> ProcessChartData(weeklyEntries).processedEntries]
    /\ phase' = "workerChartDone"
    /\ UNCHANGED weeklyStats
    /\ PureUnchanged

NextPure ==
    \/ CallGetCurrentWeekEntries
    \/ ComputeWeeklyStats
    \/ WorkerCalculateStats
    \/ RenderSolarChart
    \/ WorkerProcessChartData

SpecPure == InitPure /\ [][NextPure]_vars

----------------------------------------------------------------------------
(* safeStorage on its own: get, set and clear of the key, and writes to
   localStorage from elsewhere *)

\* what localStorage may hold under the key
StoragePayloads ==
    { [kind |-> "absent", elems |-> << >>], [kind |-> "badjson", elems |-> << >>],
      [kind |-> "other", elems |-> << >>] }
    \cup { Array(WellFormed(n)) : n \in 1..2 }

\* the values handed to safeStorage.set: entries, one production being NaN
SetValues ==
    { Array(DataToSave(<< [id |-> StoredId(1), date |-> Today, production |-> p] >>)) :
        p \in {5, NaN} }

InitStorage ==
    /\ phase = "storage"
    /\ stored \in StoragePayloads
    /\ storageCache = [has |-> FALSE, val |-> NullValue]
    /\ savedEntries = NullValue
    /\ date = NewDate(Today)
    /\ entriesMapRef = EmptyMap
    /\ pendingUpdatesRef = EmptyMap
    /\ weeklyEntries = << >>
    /\ PureIdle

StoragePhases == {"storage", "got", "getFailed", "wrote", "writeFailed", "cleared", "changed"}

StorageUnchanged ==
    UNCHANGED << chart, date, entries, isLoading, isInitialized, forceUpdate, editingDay,
                 editValue, entriesRef, entriesMapRef, weeklyEntriesCache,
                 pendingUpdatesRef, saveTimeoutRef, saveTimers, initialRenderRef,
                 weeklyEntries, weeklyStats, today, tz, mounted, loadPc, loadIndex,
                 nextId, uuidEpoch, changed, queued, saveCleanup, persisted0, lastUpsert,
                 lastCall, lastWrite >>

\* safeStorage.get(key): the catch branch is taken
GetThrows(cache, store) == ~cache.has /\ store.kind = "badjson"

\* safeStorage.get(key)
StorageGet ==
    /\ phase \in StoragePhases
    /\ savedEntries' = SafeGet(storageCache, stored)
    /\ storageCache' = CacheAfterGet(storageCache, stored)
    /\ phase' = IF GetThrows(storageCache, stored) THEN "getFailed" ELSE "got"
    /\ UNCHANGED stored
    /\ StorageUnchanged

\* safeStorage.set(key, value), localStorage.setItem succeeding or throwing
StorageSet(value, ok) ==
    /\ phase \in StoragePhases
    /\ storageCache' = CacheAfterSet(value)
    /\ stored' = IF ok THEN Array(Serialized(value.elems)) ELSE stored
    /\ phase' = IF ok THEN "wrote" ELSE "writeFailed"
    /\ UNCHANGED savedEntries
    /\ StorageUnchanged

\* safeStorage.clear(key)
StorageClear ==
    /\ phase \in StoragePhases
    /\ storageCache' = ClearedCache
    /\ phase' = "cleared"
    /\ UNCHANGED << stored, savedEntries >>
    /\ StorageUnchanged

\* localStorage is written under the key by another tab or by hand
ExternalWrite(payload) ==
    /\ phase \in StoragePhases
    /\ stored # payload
    /\ stored' = payload
    /\ phase' = "changed"
    /\ UNCHANGED << storageCache, savedEntries >>
    /\ StorageUnchanged

NextStorage ==
    \/ StorageGet
    \/ \E value \in SetValues, ok \in BOOLEAN : StorageSet(value, ok)
    \/ StorageClear
    \/ \E payload \in StoragePayloads : ExternalWrite(payload)

SpecStorage == InitStorage /\ [][NextStorage]_vars

----------------------------------------------------------------------------
(* Properties of the startup load and of the store *)

Ready == isInitialized /\ ~isLoading
Settled == phase = "idle" /\ queued = NoUpdate
ListDates(list) == {list[i].date : i \in 1..Len(list)}

\* the last element of the persisted payload with date d
LastFor(elems, d) ==
    elems[CHOOSE i \in 1..Len(elems) :
            /\ elems[i].date = d
            /\ \A j \in (i + 1)..Len(elems) : elems[j].date # d]

\* the entries are well-formed and their dates are distinct
WellFormedPayload(value) ==
    /\ value.kind = "array"
    /\ \A i \in 1..Len(value.elems) :
          /\ value.elems[i].tag = "obj"
          /\ Truthy(value.elems[i].id)
          /\ value.elems[i].date # NoDate
          /\ value.elems[i].production.k = "num"
          /\ value.elems[i].production.v \in 0..100
          /\ \A j \in 1..Len(value.elems) :
                value.elems[j].date = value.elems[i].date => j = i

\* a payload as the set of its (id, date, production) triples
Triples(elems) ==
    {<< elems[i].id, elems[i].date, NumberOf(elems[i].production) >> :
        i \in 1..Len(elems)}

\* C1: once the load has completed and readiness is signalled, and before
\* any edit, every date of the persisted payload has an entry in the list,
\* and in the map once the save effect has re-synchronised it, whose
\* production is the numeric coercion of the payload's last element for
\* that date; for payloads of every length.
C1_LoadKeepsEveryDate ==
    (loadPc = "done" /\ Ready /\ Settled /\ forceUpdate = 0
        /\ persisted0.kind = "array")
    => \A i \in 1..Len(persisted0.elems) :
          LET d == persisted0.elems[i].date
              p == NumberOf(LastFor(persisted0.elems, d).production)
          IN  /\ \E j \in 1..Len(entries) :
                    entries[j].date = d /\ entries[j].production = p
              /\ d \in DOMAIN entriesMapRef
              /\ entriesMapRef[d].production = p

\* C2: round trip: with N well-formed entries of distinct dates in storage
\* and no edit, after the load and the debounced save that follows it the
\* storage holds the same entries (dates, productions and ids), for any N.
C2_RoundTrip ==
    (WellFormedPayload(persisted0) /\ loadPc = "done" /\ forceUpdate = 0
        /\ saveCleanup /\ saveTimeoutRef = NoTimer)
    => /\ stored.kind = "array"
       /\ Triples(stored.elems) = Triples(persisted0.elems)

\* C3: in every reachable state the entries list holds at most one entry
\* per date.
C3_OneEntryPerDate ==
    \A i, j \in 1..Len(entries) : entries[i].date = entries[j].date => i = j

\* C4: in every reachable state every entry's production is a number
\* within [0, 100].
C4_ProductionInRange ==
    \A i \in 1..Len(entries) :
        /\ entries[i].production # NaN
        /\ entries[i].production >= 0
        /\ entries[i].production <= 100

\* C5: after an upsert of (d, x) by form submit or inline edit, looking d up
\* in the date-keyed map gives an entry with production x, and the entry
\* keeps the id the map held for d before the upsert.
C5_UpsertThenGet ==
    (lastUpsert.made /\ queued = NoUpdate)
    => /\ lastUpsert.date \in DOMAIN entriesMapRef
       /\ entriesMapRef[lastUpsert.date].production = lastUpsert.production
       /\ Truthy(lastUpsert.id) => entriesMapRef[lastUpsert.date].id = lastUpsert.id

\* C6: entries are never deleted: a date that is in the entries list or in
\* the date-keyed map is there in every later state.
C6_NeverDeleted ==
    [][ /\ ListDates(entries) \subseteq ListDates(entries')
        /\ DOMAIN entriesMapRef \subseteq DOMAIN entriesMapRef' ]_vars

----------------------------------------------------------------------------
(* Properties of the week window *)

\* the memoized week belongs to the current render
Rendered == date # NULL /\ phase \in {"effects", "idle"}

DayOfWeek(day) == day % 7

\* C7: cache coherency: when the week is handed to the stats and chart
\* layers (the load, submit, edit or date selection being fully processed)
\* it equals, date for date and production for production, a fresh
\* materialization of the anchor's week from the store and the overlay.
C7_WeekIsFresh ==
    (Settled /\ mounted /\ Ready /\ date # NULL)
    => /\ Len(weeklyEntries) = 7
       /\ \A i \in 1..7 :
            LET fresh == WeekEntry(date, i - 1, entriesMapRef, pendingUpdatesRef, uuidEpoch)
            IN  /\ weeklyEntries[i].date = fresh.date
                /\ weeklyEntries[i].production = fresh.production

\* C8: for every established anchor the materialized week, and the cached
\* week, has exactly 7 entries, dated weekStart, weekStart + 1, ...,
\* weekStart + 6 in this order, on a cache miss and on a cache hit alike.
C8_SevenConsecutiveDays ==
    /\ Rendered =>
          /\ Len(weeklyEntries) = 7
          /\ \A i \in 1..7 : weeklyEntries[i].date = WeekKey(date) + i - 1
    /\ weeklyEntriesCache.set =>
          /\ Len(weeklyEntriesCache.entries) = 7
          /\ \A i \in 1..7 :
                weeklyEntriesCache.entries[i].date = weeklyEntriesCache.date + i - 1

\* a cache hit served a week to an anchor other than the first one
C8_Witness ==
    Rendered /\ lastCall.hit /\ date # today /\ Len(weeklyEntries) = 7

\* the dates a user can make the anchor
Anchors == {today} \cup {CalendarDate(d) : d \in SelDays} \cup {NewDate(d) : d \in EditDays}

\* C9: weekStart(anchor) is the latest Sunday on or before the anchor's
\* day, the anchor's day is one of the 7 materialized dates, and an anchor
\* of the same Sunday-to-Saturday week has the same weekStart (cache key).
C9_WeekStartIsSunday ==
    date # NULL =>
       /\ DayOfWeek(WeekKey(date)) = 0
       /\ WeekKey(date) <= Format(date)
       /\ Format(date) - WeekKey(date) < 7
       /\ Rendered => Format(date) \in WeekDates(weeklyEntries)
       /\ \A a \in Anchors :
             (Format(a) \div 7 = Format(date) \div 7) <=> (WeekKey(a) = WeekKey(date))

\* the anchor is not a Sunday and another anchor of its week was served
\* from the cache
C9_Witness ==
    /\ Rendered /\ lastCall.hit
    /\ WeekKey(date) # Format(date)
    /\ \E a \in Anchors : a # date /\ WeekKey(a) = WeekKey(date)

\* C10: idempotence: a call of getCurrentWeekEntries that follows a call
\* with the same anchor, the store and the overlay unchanged in between, is
\* served from the cache and returns the same sequence, ids included.
C10_RepeatedCallIsCached ==
    lastCall.repeat => lastCall.hit /\ lastCall.same

\* the same anchor was materialized twice in a row
C10_Witness ==
    lastCall.repeat /\ lastCall.hit /\ Len(weeklyEntries) = 7 /\ forceUpdate > 0

----------------------------------------------------------------------------
(* Properties of the materialized days and of the statistics *)

\* C11: on a cache miss each of the 7 materialized days has the overlay's
\* value if the overlay has its date, otherwise the production of the
\* store's entry if the store has its date, otherwise 0; and it has the id of
\* the store's entry whenever the store has its date.
C11_OverlayThenStoreThenZero ==
    phase = "weekDone" =>
       /\ Len(weeklyEntries) = 7
       /\ \A i \in 1..7 :
            LET d == weeklyEntries[i].date
            IN  /\ weeklyEntries[i].production =
                      IF d \in DOMAIN pendingUpdatesRef THEN pendingUpdatesRef[d]
                      ELSE IF d \in DOMAIN entriesMapRef THEN entriesMapRef[d].production
                      ELSE 0
                /\ d \in DOMAIN entriesMapRef => weeklyEntries[i].id = entriesMapRef[d].id

\* a week was materialized with a day the overlay and the store both hold,
\* with different values, a day only the store holds and a day neither holds
C11_Witness ==
    /\ phase = "weekDone"
    /\ \E a, b, c \in WeekDates(weeklyEntries) :
          /\ a \in DOMAIN pendingUpdatesRef /\ a \in DOMAIN entriesMapRef
          /\ pendingUpdatesRef[a] # entriesMapRef[a].production
          /\ b \notin DOMAIN pendingUpdatesRef /\ b \in DOMAIN entriesMapRef
          /\ entriesMapRef[b].production > 0
          /\ c \notin DOMAIN pendingUpdatesRef /\ c \notin DOMAIN entriesMapRef

\* the statistics of the week have been computed
StatsDone == phase \in {"statsDone", "workerDone"}

Productions(week) == [i \in 1..Len(week) |-> week[i].production]

\* the sum of a sequence of numbers
RECURSIVE SumOf(_)
SumOf(seq) == IF seq = << >> THEN 0 ELSE Head(seq) + SumOf(Tail(seq))

\* the days of the week with a positive production
Producing(week) == {i \in 1..Len(week) : week[i].production > 0}

\* C12: total is the sum of all productions; dailyAverage is total divided
\* by the number of entries with production > 0 (dailyAverage times that
\* number is total), and 0 when there is none; [2, 0, 4, 0, 0, 0, 0] gives
\* total 6 and average 3.
C12_TotalAndAverage ==
    StatsDone =>
       /\ weeklyStats.weeklyTotal = SumOf(Productions(weeklyEntries))
       /\ IF Producing(weeklyEntries) = {}
          THEN weeklyStats.dailyAverage.num = 0
          ELSE weeklyStats.dailyAverage.num * Cardinality(Producing(weeklyEntries))
                  = weeklyStats.weeklyTotal * weeklyStats.dailyAverage.den
       /\ Productions(weeklyEntries) = << 2, 0, 4, 0, 0, 0, 0 >> =>
             /\ weeklyStats.weeklyTotal = 6
             /\ weeklyStats.dailyAverage.num = 3 * weeklyStats.dailyAverage.den

\* the statistics of the week [2, 0, 4, 0, 0, 0, 0] were computed
C12_Witness ==
    /\ phase = "statsDone"
    /\ Productions(weeklyEntries) = << 2, 0, 4, 0, 0, 0, 0 >>
    /\ weeklyStats.weeklyTotal = 6

\* C13: with at least one positive production, maxProduction is the
\* greatest production of the week and maxProductionEntry is the first entry
\* with that production; a later entry with an equal production does not
\* replace it.
C13_MaxIsFirstGreatest ==
    (StatsDone /\ Producing(weeklyEntries) # {}) =>
       \E i \in 1..Len(weeklyEntries) :
          /\ \A j \in 1..Len(weeklyEntries) :
                weeklyEntries[j].production <= weeklyEntries[i].production
          /\ \A j \in 1..(i - 1) :
                weeklyEntries[j].production < weeklyEntries[i].production
          /\ weeklyStats.maxProduction = weeklyEntries[i].production
          /\ weeklyStats.maxProductionDay = weeklyEntries[i]

\* the worker computed the statistics of a week whose greatest production
\* occurs on two days
C13_Witness ==
    /\ phase = "workerDone"
    /\ \E i, j \in 1..Len(weeklyEntries) :
          /\ i < j
          /\ weeklyEntries[i].production = weeklyStats.maxProduction
          /\ weeklyEntries[j].production = weeklyStats.maxProduction
          /\ weeklyStats.maxProduction > 0
          /\ weeklyStats.maxProductionDay = weeklyEntries[i]

\* C14: for a week in which all productions are 0, and for the empty
\* sequence, total, dailyAverage and maxProduction are 0 and
\* maxProductionEntry is absent.
C14_AllZeroWeek ==
    (StatsDone /\ \A i \in 1..Len(weeklyEntries) : weeklyEntries[i].production = 0) =>
       /\ weeklyStats.weeklyTotal = 0
       /\ weeklyStats.dailyAverage.num = 0
       /\ weeklyStats.maxProduction = 0
       /\ weeklyStats.maxProductionDay = NoEntry

\* the statistics of a week of seven zeros were computed by the component
C14_Witness ==
    /\ phase = "statsDone"
    /\ Len(weeklyEntries) = 7
    /\ \A i \in 1..7 : weeklyEntries[i].production = 0
    /\ weeklyStats.maxProductionDay = NoEntry

----------------------------------------------------------------------------
(* Properties of the debounced save *)

\* the entries list as the set of its (id, date, production) triples
EntryTriples(list) ==
    {<< list[i].id, list[i].date, list[i].production >> : i \in 1..Len(list)}

\* the step is a run of the save timer's callback
WriteStep == saveTimers' # saveTimers /\ saveTimers' \subseteq saveTimers /\ phase' = phase

\* C15: the mutations of a burst, each of which re-arms the timer before it
\* fires, end in one storage write: when the callback runs, the timer it
\* belongs to is the only one armed, none is armed afterwards, the value it
\* hands to safeStorage.set is the snapshot of the last mutation, and what
\* reaches localStorage is the JSON of that value.
C15_OneWriteOfLatestSnapshot ==
    [][ WriteStep =>
          /\ Cardinality(saveTimers) = 1
          /\ saveTimers' = {}
          /\ storageCache'.has
          /\ storageCache'.val.kind = "array"
          /\ Triples(storageCache'.val.elems) = EntryTriples(entries)
          /\ stored' # stored =>
                stored' = Array(Serialized(storageCache'.val.elems)) ]_vars

\* two mutations were made, the second before the timer of the first fired,
\* and the one write that followed stored the entries as they are
C15_Witness ==
    /\ mounted /\ forceUpdate >= 2
    /\ lastWrite.made /\ lastWrite.superseded
    /\ saveTimers = {}
    /\ Len(entries) >= 2
    /\ stored.kind = "array"
    /\ Triples(stored.elems) = EntryTriples(entries)

\* C16: at most one debounced save timer is armed, and it is the one whose
\* handle saveTimeoutRef holds: a store change cancels the armed timer before
\* it arms a new one, and the callback clears the handle.
C16_AtMostOneTimer ==
    /\ Cardinality(saveTimers) <= 1
    /\ \A t \in saveTimers : t.id = saveTimeoutRef
    /\ (lastWrite.made /\ saveTimers = {} /\ mounted) => saveTimeoutRef = NoTimer

\* a store change has cancelled an armed timer and armed a new one
C16_Witness ==
    /\ Cardinality(saveTimers) = 1
    /\ \E t \in saveTimers : t.superseded /\ t.snapshot = entries
    /\ forceUpdate > 0

\* a mutation was committed and the component is still mounted
Committed == lastUpsert.made /\ mounted

\* storage holds the (id, date, production) of every entry of the list
Persisted ==
    /\ stored.kind = "array"
    /\ Len(stored.elems) = Len(entries)
    /\ Triples(stored.elems) = EntryTriples(entries)

\* the last value handed to safeStorage.set did not reach localStorage
WriteFailed ==
    /\ storageCache.has
    /\ storageCache.val.kind = "array"
    /\ stored # Array(Serialized(storageCache.val.elems))

\* C17: after a committed mutation, unless the component is torn down or a
\* storage write fails, eventually storage holds the snapshot of the store
\* (mutations are finitely many, so the last one is eventually persisted).
C17_EventuallyPersisted ==
    Committed ~> (Persisted \/ ~mounted \/ WriteFailed)

----------------------------------------------------------------------------
(* Properties of teardown and of a failed write *)

\* the step is the teardown of the component while a debounced write is pending
TeardownWithPending == mounted /\ ~mounted' /\ saveTimers # {}

\* C18: when the component is torn down while a debounced write is pending,
\* a final flush is attempted: after the teardown storage holds the latest
\* snapshot, or safeStorage.set was called with it.
C18_FinalFlush ==
    [][ TeardownWithPending =>
          \/ Persisted'
          \/ /\ storageCache'.has
             /\ storageCache'.val.kind = "array"
             /\ Triples(storageCache'.val.elems) = EntryTriples(entries) ]_vars

\* C19: teardown cancels the pending debounced write: once the component is
\* torn down no timer is armed, and no step changes storage or safeStorage's
\* cache.
C19_TeardownCancels ==
    [][ ~mounted' =>
          /\ saveTimers' = {}
          /\ ~mounted => (stored' = stored /\ storageCache' = storageCache) ]_vars

\* the component was torn down while the write of a mutation was pending:
\* the timer is gone and the mutation is not in storage
C19_Witness ==
    /\ ~mounted /\ lastUpsert.made
    /\ saveTimeoutRef # NoTimer /\ saveTimers = {}
    /\ ~Persisted

\* the step is a run of the save timer's callback in which the write fails
FailedWriteStep == WriteStep /\ ~lastWrite'.ok

\* C20: a storage write that fails leaves the entries list, the date-keyed
\* map, the pending overlay and the week cache as they were, and the
\* session goes on accepting edits.
C20_FailedWriteKeepsMemory ==
    [][ FailedWriteStep =>
          /\ UNCHANGED << entries, entriesRef, entriesMapRef, pendingUpdatesRef,
                          weeklyEntriesCache, weeklyEntries, date, editingDay >>
          /\ mounted => (CanAct' /\ ~isLoading') ]_vars

\* a write failed and a later submit or inline edit was accepted: its
\* snapshot waits in a new timer
C20_Witness ==
    /\ lastWrite.made /\ ~lastWrite.ok
    /\ mounted /\ forceUpdate >= 2
    /\ \E t \in saveTimers : t.snapshot = entries /\ ~t.superseded
    /\ lastUpsert.date \in DOMAIN entriesMapRef
    /\ entriesMapRef[lastUpsert.date].production = lastUpsert.production

----------------------------------------------------------------------------
(* Properties of the startup load *)

\* the load has finished: loading is over and the core is initialized
LoadFinished == ~isLoading /\ isInitialized

\* C21: whatever is persisted under the key, unless the component is torn
\* down the load eventually finishes: isLoading becomes false and
\* isInitialized true.
C21_LoadFinishes == mounted ~> (~mounted \/ LoadFinished)

\* an element of a payload with an id, a date and a production in range
WellFormedElem(e) ==
    /\ e.tag = "obj" /\ Truthy(e.id) /\ e.date # NoDate
    /\ e.production.k = "num" /\ e.production.v \in 0..100

\* an element of a payload that is an object without a date
DatelessElem(e) == e.tag = "obj" /\ e.date = NoDate

\* the payload read at startup holds one well-formed element and one without
\* a date
OneGoodOneDateless ==
    /\ persisted0.kind = "array"
    /\ Len(persisted0.elems) = 2
    /\ \E i, j \in 1..2 :
          WellFormedElem(persisted0.elems[i]) /\ DatelessElem(persisted0.elems[j])

\* C22: a payload of one well-formed element and one element without a date
\* is loaded under one policy: the element without a date never becomes an
\* entry of the list or of the map, and once the load is over the list is
\* empty (strict) or holds the well-formed element alone (tolerant).
C22_MalformedElementSkipped ==
    OneGoodOneDateless =>
       /\ \A i \in 1..Len(entries) : entries[i].date # NoDate
       /\ NoDate \notin DOMAIN entriesMapRef
       /\ (loadPc = "done" /\ forceUpdate = 0) =>
             \/ entries = << >>
             \/ /\ Len(entries) = 1
                /\ \E i \in 1..2 :
                      /\ WellFormedElem(persisted0.elems[i])
                      /\ entries[1].date = persisted0.elems[i].date
                      /\ entries[1].id = persisted0.elems[i].id

\* the component was torn down while chunks of the load were still to run
TornDownMidLoad == ~mounted /\ loadPc \in {"chunk", "dropped"} /\ ~LoadFinished

\* C23: if the component is torn down after the chunked load has started
\* and before its last chunk is processed, the entries list and the
\* date-keyed map hold no entry of the payload.
C23_CancelledLoadLeavesEmpty ==
    TornDownMidLoad => entries = << >> /\ DOMAIN entriesMapRef = {}

\* the step is a step of the startup load
LoadStep == loadPc' # loadPc

\* C24: once the component is torn down, no step of the load (the deferred
\* start, the idle callback, a chunk already scheduled) changes the entries
\* list, the date-keyed map or the readiness flags.
C24_LoadDiscardedAfterTeardown ==
    [][ (~mounted /\ LoadStep) =>
          UNCHANGED << entries, entriesRef, entriesMapRef, isLoading, isInitialized >> ]_vars

----------------------------------------------------------------------------
(* Properties of the inline edit *)

\* a number below 0 or above 100
OutOfRange(v) == v # NaN /\ (v < 0 \/ v > 100)

\* the step is the Enter or blur of the edit input, or its Escape
EditClosingStep ==
    /\ CanAct /\ EditInputShown
    /\ mounted' /\ phase' # phase

\* C25: an inline update whose production is below 0 or above 100 is
\* refused at the call: the entries list, the date-keyed map, the pending
\* overlay, the week cache and the armed save timer are as they were.
C25_OutOfRangeUpdateRejected ==
    [][ (EditClosingStep /\ OutOfRange(editValue')) =>
          UNCHANGED << entries, entriesRef, entriesMapRef, pendingUpdatesRef,
                       weeklyEntriesCache, saveTimers, saveTimeoutRef >> ]_vars

\* an out-of-range value was just refused while a save timer was armed and
\* the list held entries
C25_Witness ==
    /\ mounted /\ phase = "render" /\ editingDay = NULL
    /\ OutOfRange(editValue)
    /\ saveTimers # {} /\ entries # << >>
    /\ pendingUpdatesRef = << >>

----------------------------------------------------------------------------
(* Future dates *)

\* C26: no user operation (a calendar selection or a manual date followed
\* by submit, an inline edit of a day card) creates or changes an entry
\* whose date is later than the local calendar day, whatever the time of
\* day and the time zone.
C26_NoFutureEntry ==
    lastUpsert.made => lastUpsert.date <= Format(today)

----------------------------------------------------------------------------
(* The pending overlay *)

\* the entries list and the date-keyed map hold production v for date d
StoreHolds(d, v) ==
    /\ d \in DOMAIN entriesMapRef /\ entriesMapRef[d].production = v
    /\ \E i \in 1..Len(entries) : entries[i].date = d /\ entries[i].production = v

\* C27: the pending value of a date is removed from the overlay only once
\* the entries list and the map hold that production for the date, and no
\* pending value is left once updateEntry has returned.
C27_PendingClearedAfterUpsert ==
    [][ /\ \A d \in DOMAIN pendingUpdatesRef :
              d \notin DOMAIN pendingUpdatesRef' => StoreHolds(d, pendingUpdatesRef[d])
        /\ phase' # "updating" => DOMAIN pendingUpdatesRef' = {} ]_vars

----------------------------------------------------------------------------
(* Properties of the chart *)

ChartDone == phase \in {"chartDone", "workerChartDone"}

\* the productions of the entries given to the chart
ChartProductions == {weeklyEntries[i].production : i \in 1..Len(weeklyEntries)}

\* the greatest production of a non-empty input
Greatest == CHOOSE p \in ChartProductions : \A q \in ChartProductions : q <= p

\* C28: maxValue is the greatest production when a production is positive,
\* and 10 when all productions are zero or there is no entry; there is one
\* bar per entry, in the order of the entries; for the chart and for the
\* worker's processChartData.
C28_MaxValueAndBars ==
    ChartDone =>
       /\ (\E p \in ChartProductions : p > 0) => chart.maxValue = Greatest
       /\ ChartProductions \subseteq {0} => chart.maxValue = 10
       /\ Len(chart.bars) = Len(weeklyEntries)
       /\ \A i \in 1..Len(weeklyEntries) :
              chart.bars[i].production = weeklyEntries[i].production

\* the quotient q is the number n, or at most n
IsValue(q, n) == q.num = n * q.den
AtMost(q, n) == q.num <= n * q.den

\* C29: a bar of the chart has height 4 and isEmpty when production <= 0,
\* and otherwise height max(5, production / maxValue * 100); an entry whose
\* production is the positive maximum has height 100 and no bar exceeds 100.
C29_BarHeights ==
    phase = "chartDone" =>
       \A i \in 1..Len(weeklyEntries) :
          LET p == weeklyEntries[i].production
              bar == chart.bars[i]
              h == bar.heightPercentage
          IN  /\ bar.isEmpty <=> p <= 0
              /\ p <= 0 => IsValue(h, 4)
              /\ (p > 0 /\ p * 100 >= 5 * chart.maxValue) =>
                    h.num * chart.maxValue = p * 100 * h.den
              /\ (p > 0 /\ p * 100 < 5 * chart.maxValue) => IsValue(h, 5)
              /\ (p > 0 /\ p = Greatest) => IsValue(h, 100)
              /\ AtMost(h, 100)

\* a chart with an empty bar, a bar held at the floor of 5 and a bar of 100
C29_Witness ==
    /\ phase = "chartDone"
    /\ \E i, j, k \in 1..Len(chart.bars) :
          /\ chart.bars[i].isEmpty
          /\ ~chart.bars[j].isEmpty /\ IsValue(chart.bars[j].heightPercentage, 5)
          /\ chart.bars[j].production * 100 < 5 * chart.maxValue
          /\ IsValue(chart.bars[k].heightPercentage, 100)

----------------------------------------------------------------------------
(* Properties of safeStorage *)

\* JSON.parse of what localStorage holds under the key, null if there is none
ParsedItem == IF stored.kind = "absent" THEN NullValue ELSE stored

\* the step is a call of get, of clear
GetStep == phase' \in {"got", "getFailed"}
ClearStep == phase' = "cleared"

\* C30: after a get or a set of the key that succeeded the cache holds a
\* value and keeps one until clear(key); while it does, a get returns the
\* cached value and leaves localStorage and the cache alone, whatever
\* localStorage holds; the get that follows clear(key) returns what
\* localStorage holds.
C30_ReadThroughCache ==
    [][ /\ phase' \in {"got", "wrote"} => storageCache'.has
        /\ (storageCache.has /\ ~ClearStep) => storageCache'.has
        /\ (GetStep /\ storageCache.has) =>
              /\ savedEntries' = storageCache.val
              /\ UNCHANGED << storageCache, stored >>
              /\ phase' = "got"
        /\ ClearStep => ~storageCache'.has
        /\ (GetStep /\ phase = "cleared" /\ phase' = "got") =>
              savedEntries' = ParsedItem ]_vars

\* a get has just returned the value cached by an earlier get or set while
\* localStorage held something else
C30_Witness ==
    /\ phase = "got"
    /\ storageCache.has /\ savedEntries = storageCache.val
    /\ savedEntries.kind = "array"
    /\ stored # savedEntries /\ stored.kind = "array"
    /\ stored # Array(Serialized(savedEntries.elems))

\* a form submit returns, or an accepted inline edit returns
UpsertReturns ==
    \/ phase = "idle" /\ forceUpdate' # forceUpdate
    \/ phase = "updating" /\ phase' # "updating"

\* C31: every successful form submit and every accepted inline edit leaves
\* the single-slot week cache empty at the moment it returns, so that the
\* next materialization of the week recomputes it.
C31_UpsertEmptiesWeekCache ==
    [][UpsertReturns => weeklyEntriesCache' = NoCache]_vars

\* an accepted inline edit of a card of the week shown has just returned and
\* the render that follows has not run yet
C31_Witness ==
    /\ phase = "render"
    /\ {"forceUpdate", "editingDay"} \subseteq changed
    /\ lastUpsert.made
    /\ lastUpsert.date \in WeekDates(weeklyEntries)
    /\ weeklyEntriesCache = NoCache

----------------------------------------------------------------------------
(* The two representations of the entries *)

\* the date-keyed map has exactly the dates of the list and maps each date
\* to an entry of the list of that date
MapAgrees(map, list) ==
    /\ DOMAIN map = {list[i].date : i \in 1..Len(list)}
    /\ \A d \in DOMAIN map : \E i \in 1..Len(list) : list[i] = map[d]

\* the component is mounted, no handler, render or effect is under way, no
\* step of the startup load is still scheduled and no updater is queued
NothingPending ==
    /\ mounted
    /\ Settled
    /\ loadPc \notin {"timer", "idleCallback", "chunk"}

\* C32: in every state in which no load chunk and no queued state update is
\* pending, the date-keyed map has exactly the dates of the entries list and
\* maps each date to the list's entry for that date.
C32_MapAgreesWithList == NothingPending => MapAgrees(entriesMapRef, entries)

----------------------------------------------------------------------------
(* Writes and the startup load *)

\* C33: while the load is in progress or the component is not initialized no
\* debounce timer is armed and localStorage still holds what it held at
\* startup: nothing is written before the load has completed.
C33_NoWriteBeforeLoaded ==
    (isLoading \/ ~isInitialized) =>
        /\ saveTimers = {}
        /\ saveTimeoutRef = NoTimer
        /\ ~lastWrite.made
        /\ stored = persisted0

\* a payload of more than one chunk is being loaded, the first run of the
\* save effect is over and the second chunk is still to come
C33_Witness ==
    /\ mounted /\ isLoading /\ ~isInitialized
    /\ loadPc = "chunk"
    /\ ~initialRenderRef
    /\ phase = "idle"
    /\ stored.kind = "array" /\ Len(stored.elems) > ChunkSize

----------------------------------------------------------------------------
(* The pending overlay *)

\* C34: outside a running updateEntry the pending overlay is empty, so the
\* week is always materialized from the date-keyed map or from the zero
\* placeholder, never from a pending value.
C34_OverlayEmptyBetweenHandlers ==
    phase # "updating" => DOMAIN pendingUpdatesRef = {}

\* the render after an accepted inline edit has materialized the week, with
\* the edited card showing the value of the date-keyed map
C34_Witness ==
    /\ phase = "effects"
    /\ {"forceUpdate", "editingDay"} \subseteq changed
    /\ lastUpsert.made
    /\ DOMAIN pendingUpdatesRef = {}
    /\ lastUpsert.date \in DOMAIN entriesMapRef
    /\ lastUpsert.date \in WeekDates(weeklyEntries)
    /\ CardOf(weeklyEntries, lastUpsert.date).production
          = entriesMapRef[lastUpsert.date].production

----------------------------------------------------------------------------
(* The storage cache and localStorage *)

\* what the cache holds for the key is what parsing localStorage's item gives
CacheMatchesStore(cache, store) ==
    IF cache.val.kind = "array"
    THEN store = Array(Serialized(cache.val.elems))
    ELSE cache.val = (IF store.kind = "absent" THEN NullValue ELSE store)

\* C35: whenever the storage cache holds a value for the key, the value is
\* what localStorage holds for the key, also after a set whose write to
\* localStorage failed.
C35_CacheAgreesWithStore ==
    storageCache.has => CacheMatchesStore(storageCache, stored)

----------------------------------------------------------------------------
(* The anchor of an inline edit *)

\* the step starts the inline edit of a day card
EditStarts == editingDay = NULL /\ editingDay' # NULL

\* C36: starting the inline edit of a day card sets the anchor to the day
\* being edited: the anchor formats to the card's date and the week of the
\* anchor is the week the card belongs to, in every time zone.
C36_EditAnchorsOnCard ==
    [][EditStarts =>
          /\ Format(date') = editingDay'
          /\ WeekKey(date') = weeklyEntries[1].date]_vars

----------------------------------------------------------------------------
(* The two implementations of the statistics *)

\* the component's reduction, the worker's calculateStats has run
TrackerStatsDone == phase \in {"statsDone", "statsRawDone"}
WorkerStatsDone == phase \in {"workerDone", "workerRawDone"}

\* C37: for every non-empty sequence of entries the single-pass reduction of
\* the component and the worker's calculateStats return the same
\* weeklyTotal, dailyAverage, maxProduction and maxProductionDay.
C37_StatsImplementationsAgree ==
    Len(weeklyEntries) > 0 =>
       /\ TrackerStatsDone => weeklyStats = CalculateStats(weeklyEntries)
       /\ WorkerStatsDone => weeklyStats = WeeklyStats(weeklyEntries)

\* the worker computed the statistics of a sequence with a non-numeric, a
\* negative and a positive production
C37_Witness ==
    /\ phase = "workerRawDone"
    /\ \E i, j, k \in 1..Len(weeklyEntries) :
          /\ weeklyEntries[i].production = NaN
          /\ weeklyEntries[j].production = 0 - 1
          /\ weeklyEntries[k].production = 50
    /\ weeklyStats.weeklyTotal = NaN
    /\ weeklyStats.maxProduction = 50

----------------------------------------------------------------------------
(* The best day *)

\* the statistics of the sequence have been computed, by either implementation
StatsComputed == TrackerStatsDone \/ WorkerStatsDone

\* C38: for every input sequence maxProductionDay is present exactly when
\* maxProduction > 0, and when present it is an element of the input whose
\* production is maxProduction; the summary shows a best day only together
\* with a positive best value.
C38_BestDayIffPositiveMax ==
    StatsComputed =>
       /\ (weeklyStats.maxProductionDay # NoEntry) <=> Gt(weeklyStats.maxProduction, 0)
       /\ weeklyStats.maxProductionDay # NoEntry =>
             \E i \in 1..Len(weeklyEntries) :
                /\ weeklyEntries[i] = weeklyStats.maxProductionDay
                /\ weeklyEntries[i].production = weeklyStats.maxProduction
       /\ FormattedValues(weeklyStats).bestDay = "day" =>
             FormattedValues(weeklyStats).formattedMax = "value"

\* the component computed the statistics of a sequence whose greatest
\* production is 0, beside a negative and a non-numeric one: no best day
C38_Witness ==
    /\ phase = "statsRawDone"
    /\ \E i, j, k \in 1..Len(weeklyEntries) :
          /\ weeklyEntries[i].production = 0
          /\ weeklyEntries[j].production = 0 - 1
          /\ weeklyEntries[k].production = NaN
    /\ weeklyStats.maxProduction = 0
    /\ weeklyStats.maxProductionDay = NoEntry
    /\ FormattedValues(weeklyStats).bestDay = "kWh"

====
